---- MODULE Spec2Model ----
(***************************************************************************)
(* A model of the powerblog Flask application (src/main.py): the three     *)
(* tables User, BlogPost and Comment, the Flask-Login session of the       *)
(* browser that sends the requests, and one action per route handler.  A   *)
(* request is served inside one unit of work of the ORM session, so a      *)
(* handler is one atomic step.  No handler reads or writes the session of  *)
(* a browser other than its caller's, so the requests of several browsers  *)
(* are the requests of one browser that logs out and in between them.  A   *)
(* commit that breaks a column constraint raises IntegrityError, which no  *)
(* handler catches: the response is a 500 and the unit of work is rolled   *)
(* back.                                                                   *)
(***************************************************************************)
EXTENDS Integers, Sequences, FiniteSets, TLC

VARIABLES users, posts, comments, session, today, request, response

vars == <<users, posts, comments, session, today, request, response>>

db == <<users, posts, comments>>

(* ----------------------------- bounds --------------------------------- *)
\* Highest BlogPost id, highest Comment id and last day the model issues.
MaxPostId == 2
MaxCommentId == 1
MaxDay == 1

(* ----------------------------- inputs --------------------------------- *)
\* A request is a GET, which submits nothing, or a POST of one of the forms.
Submissions(forms) ==
  {<<"GET", CHOOSE f \in forms : TRUE>>} \cup {<<"POST", f>> : f \in forms}

RegisterInputs ==
  { [name |-> "Ada", email |-> "ada@example.com", password |-> "secret123"],
    [name |-> "Bob", email |-> "Ada@example.com", password |-> "secret123"],
    [name |-> "",    email |-> "ada@example.com", password |-> "secret123"],
    [name |-> "Eve", email |-> "not-an-address",  password |-> "short"] }

LoginInputs ==
  { [email |-> "ada@example.com",    password |-> "secret123"],
    [email |-> "ada@example.com",    password |-> "hunter2222"],
    [email |-> "Ada@example.com",    password |-> "secret123"],
    [email |-> "nobody@example.com", password |-> "secret123"],
    [email |-> "ada@example.com",    password |-> ""] }

PostInputs ==
  { [title |-> "Hello", subtitle |-> "first",  body |-> "<p>one</p>", img_url |-> "a.png"],
    [title |-> "Hello", subtitle |-> "second", body |-> "<p>two</p>", img_url |-> "b.png"],
    [title |-> "World", subtitle |-> "first",  body |-> "<p>one</p>", img_url |-> "a.png"],
    [title |-> "",      subtitle |-> "first",  body |-> "<p>one</p>", img_url |-> "a.png"] }

CommentInputs == {"Nice post", ""}

Salts == {"q7Zk1pXa"}

\* The ids a URL names: an id is that of a row or of none.
PostIds == 1 .. MaxPostId

CommentIds == 1 .. MaxCommentId

\* The post_id of /delete/comment/<comment_id>/<post_id> only names the page
\* the response redirects to.
RedirectPostIds == {1}

(* --------------------------- the tables ------------------------------- *)
\* The administrator is the user whose id the guard compares with.
ADMIN_ID == 1

\* SQL NULL in an integer column (row ids start at 1).
NULL == 0

Ids(table) == {r.id : r \in table}

Max(S) == CHOOSE m \in S : \A n \in S : n <= m

\* An INTEGER PRIMARY KEY column without AUTOINCREMENT: the largest id in
\* the table plus one.
NextId(table) == IF table = {} THEN 1 ELSE Max(Ids(table)) + 1

\* User.email is unique=True; the comparison is exact (case-sensitive).
UniqueEmail(us) == \A u, v \in us : u.email = v.email => u = v

\* BlogPost.title is unique=True.
UniqueTitle(ps) == \A p, q \in ps : p.title = q.title => p = q

\* Variant: the foreign-key columns declared Optional, hence nullable.
NullableOK_any(cs, ps) == TRUE

\* Mapped[int] without Optional makes the foreign-key columns NOT NULL.
NullableOK(cs, ps) ==
  /\ \A cm \in cs : cm.post_id # NULL /\ cm.author_id # NULL
  /\ \A p \in ps : p.author_id # NULL

\* What the database checks when the unit of work is flushed.  Foreign keys
\* themselves are not enforced by the default SQLite connection.
IntegrityOK(us, ps, cs) ==
  /\ UniqueEmail(us)
  /\ UniqueTitle(ps)
  /\ NullableOK(cs, ps)

(* ------------------------- password hashing --------------------------- *)
\* pbkdf2:sha256 idealised as a collision-free function of salt and password.
pbkdf2(salt, password) == <<"pbkdf2:sha256", salt, password>>

generate_password_hash(password, salt) ==
  [method |-> "pbkdf2:sha256", salt |-> salt, digest |-> pbkdf2(salt, password)]

\* Variant: the password is not verified.
check_password_hash_any(pwhash, password) == TRUE

check_password_hash(pwhash, password) ==
  pwhash.digest = pbkdf2(pwhash.salt, password)

(* ----------------------------- the date ------------------------------- *)
\* date.today().strftime("%B %d, %Y"), day 0 being November 29, 2026.
strftime(d) ==
  IF 29 + d <= 30 THEN <<"November", 29 + d, 2026>>
                  ELSE <<"December", d - 1, 2026>>

(* -------------------------- form validation --------------------------- *)
WellFormedEmails == {"ada@example.com", "Ada@example.com", "nobody@example.com"}

MinPasswordLen == 8

RegisterFormValid(f) ==
  /\ f.name # ""
  /\ f.email \in WellFormedEmails
  /\ Len(f.password) >= MinPasswordLen

LoginFormValid(f) == f.email # "" /\ f.password # ""

CreatePostFormValid(f) ==
  f.title # "" /\ f.subtitle # "" /\ f.img_url # "" /\ f.body # ""

CommentFormValid(text) == text # ""

\* FlaskForm.validate_on_submit: a submitting method and a valid form.
validate_on_submit(method, valid) == method = "POST" /\ valid

(* ------------------------------ login --------------------------------- *)
\* load_user: the User row of a session's user id, or none.
load_user(user_id) == {u \in users : u.id = user_id}

current_user == UNION {load_user(uid) : uid \in session}

is_authenticated == current_user # {}

current_user_id == (CHOOSE u \in current_user : TRUE).id

\* Variant: the session is not touched.
login_user_skipped(user) == UNCHANGED session

\* login_user: the session carries the user's id.
login_user(user) == session' = {user.id}

(* ---------------------------- responses ------------------------------- *)
NoFlash == ""

redirect(endpoint, flashed) == [status |-> 302, target |-> endpoint, flash |-> flashed]

render_template(template) == [status |-> 200, target |-> template, flash |-> NoFlash]

abort(code) == [status |-> code, target |-> "", flash |-> NoFlash]

\* db.session.commit(): the rows are written, or IntegrityError propagates,
\* the request ends in a 500 and the unit of work is rolled back.
commit(us, ps, cs, ok) ==
  IF IntegrityOK(us, ps, cs)
    THEN /\ users' = us /\ posts' = ps /\ comments' = cs
         /\ response' = ok
    ELSE /\ UNCHANGED db
         /\ response' = abort(500)

(* ------------------------------ guards -------------------------------- *)
\* Variant: the guard forgets to compare the id.
admin_only_any_user == is_authenticated

\* admin_only lets the request through.
admin_only == is_authenticated /\ current_user_id = ADMIN_ID

\* Variant: the guard forgets to compare the author.
only_commenter_any_user(comment) == is_authenticated

\* only_commenter lets the request through (the comment was found).
only_commenter(comment) ==
  is_authenticated /\ current_user_id = comment.author_id

(* ------------------------------ Init ---------------------------------- *)
Init ==
  /\ users = {}
  /\ posts = {}
  /\ comments = {}
  /\ session = {}
  /\ today = 0
  /\ request = [op |-> "none", submitted |-> FALSE]
  /\ response = render_template("")

(* ----------------------------- handlers ------------------------------- *)
\* Variant: the comment is attributed to the administrator.
new_comment_unowned(post, text) ==
  [id |-> NextId(comments), text |-> text, author_id |-> ADMIN_ID, post_id |-> post.id]

\* Comment(text=..., author=current_user, parent_post=requested_post)
new_comment(post, text) ==
  [id |-> NextId(comments), text |-> text,
   author_id |-> current_user_id, post_id |-> post.id]

show_post(post_id, method, text) ==
  /\ request' = [op |-> "show_post",
                 submitted |-> validate_on_submit(method, CommentFormValid(text))]
  /\ UNCHANGED <<session, today>>
  /\ IF ~(\E p \in posts : p.id = post_id)
       THEN /\ response' = abort(404)
            /\ UNCHANGED db
       ELSE LET requested_post == CHOOSE p \in posts : p.id = post_id IN
            IF validate_on_submit(method, CommentFormValid(text))
              THEN IF ~is_authenticated
                     THEN /\ response' = redirect("login", "You need to login or register to comment.")
                          /\ UNCHANGED db
                     ELSE /\ NextId(comments) <= MaxCommentId
                          /\ commit(users, posts,
                                    comments \cup {new_comment(requested_post, text)},
                                    render_template("post.html"))
              ELSE /\ response' = render_template("post.html")
                   /\ UNCHANGED db

\* Variant: register does not look the email up.
email_taken_never(email) == FALSE

\* The lookup that decides whether register creates an account.
email_taken(email) == \E u \in users : u.email = email

new_user(f, salt) ==
  [id |-> NextId(users), name |-> f.name, email |-> f.email,
   password |-> generate_password_hash(f.password, salt)]

register(method, f, salt) ==
  /\ request' = [op |-> "register",
                 submitted |-> validate_on_submit(method, RegisterFormValid(f))]
  /\ UNCHANGED today
  /\ IF validate_on_submit(method, RegisterFormValid(f))
       THEN IF email_taken(f.email)
              THEN /\ response' = redirect("login", "User already exists, please log in.")
                   /\ UNCHANGED <<db, session>>
              ELSE /\ commit(users \cup {new_user(f, salt)}, posts, comments,
                             redirect("get_all_posts", NoFlash))
                   /\ IF response'.status = 500
                        THEN UNCHANGED session
                        ELSE login_user(new_user(f, salt))
       ELSE /\ response' = render_template("register.html")
            /\ UNCHANGED <<db, session>>

\* select(User).where(User.email == email): none or one row.
user_by_email(email) == {u \in users : u.email = email}

login(method, f) ==
  /\ request' = [op |-> "login",
                 submitted |-> validate_on_submit(method, LoginFormValid(f))]
  /\ UNCHANGED <<db, today>>
  /\ IF validate_on_submit(method, LoginFormValid(f))
       THEN IF user_by_email(f.email) = {}
              THEN /\ response' = redirect("login", "That email does not exist. Please try again.")
                   /\ UNCHANGED session
              ELSE LET user == CHOOSE u \in user_by_email(f.email) : TRUE IN
                   IF ~check_password_hash(user.password, f.password)
                     THEN /\ response' = redirect("login", "Invalid password. Please try again.")
                          /\ UNCHANGED session
                     ELSE /\ login_user(user)
                          /\ response' = redirect("get_all_posts", NoFlash)
       ELSE /\ response' = render_template("login.html")
            /\ UNCHANGED session

logout ==
  /\ request' = [op |-> "logout", submitted |-> FALSE]
  /\ session' = {}
  /\ response' = redirect("get_all_posts", NoFlash)
  /\ UNCHANGED <<db, today>>

\* BlogPost(title=..., author=current_user, date=date.today().strftime(...))
new_post(f) ==
  [id |-> NextId(posts), title |-> f.title, subtitle |-> f.subtitle,
   date |-> strftime(today), body |-> f.body, img_url |-> f.img_url,
   author_id |-> current_user_id]

add_new_post(method, f) ==
  /\ request' = [op |-> "add_new_post",
                 submitted |-> validate_on_submit(method, CreatePostFormValid(f))]
  /\ UNCHANGED <<session, today>>
  /\ IF ~admin_only
       THEN /\ response' = abort(403)
            /\ UNCHANGED db
       ELSE IF validate_on_submit(method, CreatePostFormValid(f))
              THEN /\ NextId(posts) <= MaxPostId
                   /\ commit(users, posts \cup {new_post(f)}, comments,
                             redirect("get_all_posts", NoFlash))
              ELSE /\ response' = render_template("make-post.html")
                   /\ UNCHANGED db

\* Variant: the edit stamps today's date as well.
edited_post_restamped(post, f) ==
  [post EXCEPT !.title = f.title, !.subtitle = f.subtitle,
               !.img_url = f.img_url, !.body = f.body,
               !.date = strftime(today)]

\* The four assignments of edit_post.
edited_post(post, f) ==
  [post EXCEPT !.title = f.title, !.subtitle = f.subtitle,
               !.img_url = f.img_url, !.body = f.body]

edit_post(post_id, method, f) ==
  /\ request' = [op |-> "edit_post",
                 submitted |-> validate_on_submit(method, CreatePostFormValid(f))]
  /\ UNCHANGED <<session, today>>
  /\ IF ~admin_only
       THEN /\ response' = abort(403)
            /\ UNCHANGED db
       ELSE IF ~(\E p \in posts : p.id = post_id)
              THEN /\ response' = abort(404)
                   /\ UNCHANGED db
              ELSE LET post == CHOOSE p \in posts : p.id = post_id IN
                   IF validate_on_submit(method, CreatePostFormValid(f))
                     THEN commit(users, (posts \ {post}) \cup {edited_post(post, f)},
                                 comments, redirect("show_post", NoFlash))
                     ELSE /\ response' = render_template("make-post.html")
                          /\ UNCHANGED db

\* Flushing the delete of a BlogPost: its comments relationship names no
\* cascade, so the unit of work sets post_id of the post's comments to NULL
\* and deletes the post row.
comments_after_delete(post) ==
  {IF cm.post_id = post.id THEN [cm EXCEPT !.post_id = NULL] ELSE cm : cm \in comments}

delete_post(post_id) ==
  /\ request' = [op |-> "delete_post", submitted |-> FALSE]
  /\ UNCHANGED <<session, today>>
  /\ IF ~admin_only
       THEN /\ response' = abort(403)
            /\ UNCHANGED db
       ELSE IF ~(\E p \in posts : p.id = post_id)
              THEN /\ response' = abort(404)
                   /\ UNCHANGED db
              ELSE LET post_to_delete == CHOOSE p \in posts : p.id = post_id IN
                   commit(users, posts \ {post_to_delete},
                          comments_after_delete(post_to_delete),
                          redirect("get_all_posts", NoFlash))

delete_comment(comment_id, post_id) ==
  /\ request' = [op |-> "delete_comment", submitted |-> FALSE]
  /\ UNCHANGED <<session, today>>
  /\ IF ~(\E cm \in comments : cm.id = comment_id)
       THEN /\ response' = abort(404)
            /\ UNCHANGED db
       ELSE LET comment == CHOOSE cm \in comments : cm.id = comment_id IN
            IF ~only_commenter(comment)
              THEN /\ response' = abort(403)
                   /\ UNCHANGED db
              ELSE commit(users, posts, comments \ {comment},
                          redirect("show_post", NoFlash))

\* The calendar day read by date.today() moves on between requests.
next_day ==
  /\ today < MaxDay
  /\ today' = today + 1
  /\ UNCHANGED <<db, session, request, response>>

Next ==
  \/ \E id \in PostIds, s \in Submissions(CommentInputs) :
       show_post(id, s[1], s[2])
  \/ \E s \in Submissions(RegisterInputs), salt \in Salts :
       register(s[1], s[2], salt)
  \/ \E s \in Submissions(LoginInputs) : login(s[1], s[2])
  \/ logout
  \/ \E s \in Submissions(PostInputs) : add_new_post(s[1], s[2])
  \/ \E id \in PostIds, s \in Submissions(PostInputs) :
       edit_post(id, s[1], s[2])
  \/ \E id \in PostIds : delete_post(id)
  \/ \E id \in CommentIds, pid \in RedirectPostIds : delete_comment(id, pid)
  \/ next_day

Spec == Init /\ [][Next]_vars
(* ------------------------------ claims -------------------------------- *)
\* A step that serves a request of the named handler: every handler records
\* its name in request, and next_day alone leaves request as it is.
Served(op) == request'.op = op /\ today' = today

\* The caller is logged in as the user with the lowest identifier.
LowestUserLoggedIn ==
  \E u \in users : session = {u.id} /\ \A v \in users : u.id <= v.id

\* C1: a create-post, edit-post or delete-post request of a caller who is not
\* logged in as the user with the lowest identifier (an anonymous caller and
\* every later-registered user included) is answered 403 and creates, changes
\* and deletes no Post and no Comment.
C1_PostHandlersAdminOnly ==
  [][ ( /\ (Served("add_new_post") \/ Served("edit_post") \/ Served("delete_post"))
         /\ ~LowestUserLoggedIn )
        => /\ response'.status = 403
           /\ posts' = posts
           /\ comments' = comments ]_vars

\* A later-registered user was refused while there was a Post to change.
C1_Witness ==
  /\ request.op \in {"add_new_post", "edit_post", "delete_post"}
  /\ response.status = 403
  /\ session # {} /\ session # {ADMIN_ID}
  /\ posts # {}

\* C2: delete-comment on a comment id that no Comment has is answered 404 for
\* every caller, logged in or not; on an existing Comment a caller who is
\* anonymous or not its author is answered 403 and the Comment stays; a
\* Comment is removed by no request but a delete-comment of its author.
C2_DeleteCommentOwnerOnly ==
  [][ /\ \A id \in CommentIds, pid \in RedirectPostIds :
           (Served("delete_comment") /\ delete_comment(id, pid)) =>
             LET found == {cm \in comments : cm.id = id} IN
             /\ found = {} => (response'.status = 404 /\ comments' = comments)
             /\ \A cm \in found :
                  IF session = {cm.author_id}
                    THEN comments' = comments \ {cm}
                    ELSE response'.status = 403 /\ comments' = comments
      /\ \A cm \in comments \ comments' :
           request'.op = "delete_comment" /\ session = {cm.author_id} ]_vars

\* A logged-in user who is not the author was refused and the Comment is
\* still there.
C2_Witness ==
  /\ request.op = "delete_comment"
  /\ response.status = 403
  /\ session # {}
  /\ comments # {}
  /\ \A cm \in comments : session # {cm.author_id}

\* C3: when the administrator deletes an existing Post, with any number of
\* Comments attached, the Post is gone afterwards and so is every Comment
\* whose parent it was.
C3_DeletePostRemovesComments ==
  [][ \A id \in PostIds :
        ( /\ Served("delete_post")
          /\ LowestUserLoggedIn
          /\ \E p \in posts : p.id = id
          /\ delete_post(id) )
        => /\ ~(\E p \in posts' : p.id = id)
           /\ ~(\E cm \in comments' : cm.post_id = id) ]_vars

\* C4: a valid create-post form of the administrator whose title is that of
\* an existing Post leaves the Posts as they were and ends in a handled
\* error with a flashed message, not in a server fault.
C4_DuplicateTitleHandled ==
  [][ \A s \in Submissions(PostInputs) :
        ( /\ Served("add_new_post")
          /\ LowestUserLoggedIn
          /\ validate_on_submit(s[1], CreatePostFormValid(s[2]))
          /\ \E p \in posts : p.title = s[2].title
          /\ add_new_post(s[1], s[2]) )
        => /\ posts' = posts
           /\ response'.status # 500
           /\ response'.flash # NoFlash ]_vars

\* C5 as stated: no two Users share an email, and every valid registration,
\* the first one with an email as well as the second, is redirected to login.
C5_RedirectedToLoginBothTimes ==
  [][ \A s \in Submissions(RegisterInputs), salt \in Salts :
        ( /\ Served("register")
          /\ validate_on_submit(s[1], RegisterFormValid(s[2]))
          /\ register(s[1], s[2], salt) )
        => /\ \A u, v \in users' : u.email = v.email => u = v
           /\ response'.status = 302 /\ response'.target = "login" ]_vars

\* C5 as amended: no two Users share an email; a valid registration with an
\* email that a User already holds creates no User and is redirected to
\* login, every time; the registration that creates the User of an email is
\* redirected to the post list.
C5_DuplicateEmailRedirectsToLogin ==
  [][ /\ \A u, v \in users' : u.email = v.email => u = v
      /\ \A s \in Submissions(RegisterInputs), salt \in Salts :
           ( /\ Served("register")
             /\ validate_on_submit(s[1], RegisterFormValid(s[2]))
             /\ register(s[1], s[2], salt) )
           => IF \E u \in users : u.email = s[2].email
                THEN /\ users' = users
                     /\ response'.status = 302 /\ response'.target = "login"
                ELSE /\ response'.status = 302
                     /\ response'.target = "get_all_posts" ]_vars

\* A second registration with an email was redirected to login.
C5_Witness ==
  /\ request.op = "register" /\ request.submitted
  /\ response.status = 302 /\ response.target = "login"
  /\ \E u \in users : u.email = "ada@example.com"

\* C6: a login submission establishes a session exactly when a User has that
\* very email and that User's stored hash verifies the password; the session
\* is then bound to that User, and a failed login leaves the session as it
\* was.
C6_LoginIffEmailAndHash ==
  [][ \A s \in Submissions(LoginInputs) :
        ( /\ Served("login")
          /\ s[1] = "POST"
          /\ login(s[1], s[2]) )
        => LET verified ==
                 {u \in users :
                    /\ u.email = s[2].email
                    /\ u.password.digest = pbkdf2(u.password.salt, s[2].password)}
           IN  IF verified = {}
                 THEN /\ session' = session
                      /\ response'.target # "get_all_posts"
                 ELSE /\ \E u \in verified : verified = {u} /\ session' = {u.id}
                      /\ response'.status = 302
                      /\ response'.target = "get_all_posts" ]_vars

\* Of two users with the same password, the later-registered one logged in
\* and the session is bound to it.
C6_Witness ==
  /\ request.op = "login" /\ request.submitted
  /\ response.target = "get_all_posts"
  /\ \E u, v \in users :
       /\ u.id # v.id /\ u.password = v.password
       /\ session = {v.id} /\ v.id # ADMIN_ID

\* C7: a valid comment submitted on the page of an existing Post by an
\* anonymous caller leaves the Comments as they were and is redirected to
\* login; submitted by a logged-in caller it creates exactly one Comment,
\* whose author is the caller and whose parent is the Post viewed.
C7_CommentNeedsLogin ==
  [][ \A id \in PostIds, s \in Submissions(CommentInputs) :
        ( /\ Served("show_post")
          /\ validate_on_submit(s[1], CommentFormValid(s[2]))
          /\ show_post(id, s[1], s[2]) )
        => IF session = {}
             THEN /\ comments' = comments
                  /\ (\E p \in posts : p.id = id)
                       => response'.status = 302 /\ response'.target = "login"
             ELSE (\E p \in posts : p.id = id)
                    => \E cm \in comments' :
                         /\ cm \notin comments
                         /\ comments' = comments \cup {cm}
                         /\ session = {cm.author_id}
                         /\ cm.post_id = id
                         /\ cm.text = s[2] ]_vars

\* A later-registered user commented: the Comment is there, under its name.
C7_Witness ==
  /\ request.op = "show_post" /\ request.submitted
  /\ response.status = 200
  /\ session # {} /\ session # {ADMIN_ID}
  /\ \E cm \in comments : session = {cm.author_id}

\* C8: a valid registration with an email no User holds creates exactly one
\* User, with that name and email, binds the caller's session to it whatever
\* the session was, and is redirected to the post list.
C8_RegisterCreatesAndLogsIn ==
  [][ \A s \in Submissions(RegisterInputs), salt \in Salts :
        ( /\ Served("register")
          /\ validate_on_submit(s[1], RegisterFormValid(s[2]))
          /\ ~(\E u \in users : u.email = s[2].email)
          /\ register(s[1], s[2], salt) )
        => /\ \E u \in users' :
                /\ u \notin users
                /\ users' = users \cup {u}
                /\ u.name = s[2].name /\ u.email = s[2].email
                /\ session' = {u.id}
           /\ response'.status = 302
           /\ response'.target = "get_all_posts" ]_vars

\* A second user registered from a browser that was logged in as the first.
C8_Witness ==
  /\ request.op = "register" /\ request.submitted
  /\ response.target = "get_all_posts"
  /\ Cardinality(users) = 2
  /\ session # {ADMIN_ID} /\ session # {}

\* C9: a Post's author is one existing User, the caller who created it (the
\* user with the lowest identifier), and its date is the day of creation; no
\* request changes the author or the date of a Post, and edit-post leaves the
\* Post's id, every other Post, the Comments and the Users as they were.
C9_AuthorAndDateFixed ==
  [][ /\ \A q \in posts' :
           /\ \E u \in users' : u.id = q.author_id
           /\ q.id \notin Ids(posts)
                => /\ session = {q.author_id}
                   /\ LowestUserLoggedIn
                   /\ q.date = strftime(today)
      /\ \A p \in posts, q \in posts' :
           p.id = q.id => (q.author_id = p.author_id /\ q.date = p.date)
      /\ Served("edit_post")
           => /\ Ids(posts') = Ids(posts)
              /\ Cardinality(posts') = Cardinality(posts)
              /\ Cardinality(posts' \ posts) <= 1
              /\ comments' = comments
              /\ users' = users ]_vars

\* A Post with a Comment was edited on a later day than it was created.
C9_Witness ==
  /\ request.op = "edit_post" /\ request.submitted
  /\ response.status = 302
  /\ \E p \in posts :
       /\ p.date # strftime(today)
       /\ \E cm \in comments : cm.post_id = p.id

====
